---- MODULE Spec2Model ----
(***************************************************************************)
(* Model of the ArmorIQ admin facade (src/admin-api/main.py): eight        *)
(* FastAPI handlers, each of which forwards one HTTP call to the upstream  *)
(* proxy through proxy_request and turns the upstream response into a      *)
(* return value or an HTTPException.                                       *)
(***************************************************************************)
EXTENDS Integers, Sequences, FiniteSets, TLC

(***************************************************************************)
(* Bounds.                                                                 *)
(***************************************************************************)
\* number of inbound requests that may be in flight at the same time
NumRequests == 2
\* number of requests a client sends one after the other
NumServed == 3

ReqIds == 1..NumRequests
SerialIds == 1..NumServed

(***************************************************************************)
(* JSON values.  Python's None and JSON null are the same value, as they   *)
(* are for json.loads / json.dumps.                                        *)
(***************************************************************************)
JNull == [k |-> "null"]
JBool(b) == [k |-> "bool", b |-> b]
JStr(s) == [k |-> "str", s |-> s]
JObj(m) == [k |-> "obj", m |-> m]
JArr(a) == [k |-> "arr", a |-> a]
None == JNull
EmptyMap == <<>>

(***************************************************************************)
(* response.json(): json.loads(response.content).  The content is a byte   *)
(* string: an optional UTF-8 byte order mark (EF BB BF) followed by the    *)
(* UTF-8 encoding of chars.  json.loads decodes bytes that start with the  *)
(* mark as utf-8-sig, so it parses chars; the content is carried with the  *)
(* token sequence of chars (each token with the offset of its first        *)
(* character) and the offsets of the newlines of chars.  A rejected body   *)
(* raises json.JSONDecodeError (a ValueError) whose str() is               *)
(* "<msg>: line L column C (char N)".  From Python 3.13 on a comma right    *)
(* before the closing brace or bracket has a message of its own, placed at *)
(* the comma.                                                              *)
(***************************************************************************)
VARIABLE python_version  \* the interpreter the process runs under: 312 stands
                         \* for Python 3.12 and earlier, 313 for 3.13 and later

Bytes(bom, chars) == [bom |-> bom, chars |-> chars]
EmptyBytes == Bytes(FALSE, "")

Tok(t, s, at) == [t |-> t, s |-> s, at |-> at]
LBrace(at) == Tok("lbrace", "", at)
RBrace(at) == Tok("rbrace", "", at)
LBracket(at) == Tok("lbracket", "", at)
RBracket(at) == Tok("rbracket", "", at)
Colon(at) == Tok("colon", "", at)
Comma(at) == Tok("comma", "", at)
TNull(at) == Tok("null", "", at)
TTrue(at) == Tok("true", "", at)
TFalse(at) == Tok("false", "", at)
TStr(s, at) == Tok("str", s, at)
TBad(s, at) == Tok("bad", s, at)

ParseOk(v, n) == [ok |-> TRUE, val |-> v, next |-> n, err |-> "", at |-> 0]
ParseErr(msg, at) == [ok |-> FALSE, val |-> JNull, next |-> 0, err |-> msg, at |-> at]

\* offset of the i-th token, or of the end of the text when there is none
\* (the scanner skips whitespace before it looks at the next character)
PosAt(doc, i) == IF i <= Len(doc.toks) THEN doc.toks[i].at ELSE Len(doc.content.chars)

RECURSIVE ParseValue(_, _)
RECURSIVE ParseMembers(_, _, _)
RECURSIVE ParseItems(_, _, _)

ParseValue(doc, i) ==
  IF i > Len(doc.toks) THEN ParseErr("Expecting value", PosAt(doc, i))
  ELSE LET t == doc.toks[i] IN
    CASE t.t = "null" -> ParseOk(JNull, i + 1)
      [] t.t = "true" -> ParseOk(JBool(TRUE), i + 1)
      [] t.t = "false" -> ParseOk(JBool(FALSE), i + 1)
      [] t.t = "str" -> ParseOk(JStr(t.s), i + 1)
      [] t.t = "lbrace" ->
           IF i + 1 <= Len(doc.toks) /\ doc.toks[i + 1].t = "rbrace"
           THEN ParseOk(JObj(EmptyMap), i + 2)
           ELSE ParseMembers(doc, i + 1, EmptyMap)
      [] t.t = "lbracket" ->
           IF i + 1 <= Len(doc.toks) /\ doc.toks[i + 1].t = "rbracket"
           THEN ParseOk(JArr(<<>>), i + 2)
           ELSE ParseItems(doc, i + 1, <<>>)
      [] OTHER -> ParseErr("Expecting value", PosAt(doc, i))

ParseMembers(doc, i, acc) ==
  IF /\ python_version >= 313
     /\ i <= Len(doc.toks) /\ doc.toks[i].t = "rbrace" /\ doc.toks[i - 1].t = "comma"
  THEN ParseErr("Illegal trailing comma before end of object", doc.toks[i - 1].at)
  ELSE IF i > Len(doc.toks) \/ doc.toks[i].t # "str"
  THEN ParseErr("Expecting property name enclosed in double quotes", PosAt(doc, i))
  ELSE IF i + 1 > Len(doc.toks) \/ doc.toks[i + 1].t # "colon"
  THEN ParseErr("Expecting ':' delimiter", PosAt(doc, i + 1))
  ELSE LET v == ParseValue(doc, i + 2) IN
    IF ~v.ok THEN v
    ELSE LET acc2 == (doc.toks[i].s :> v.val) @@ acc
             j == v.next
         IN IF j > Len(doc.toks) THEN ParseErr("Expecting ',' delimiter", PosAt(doc, j))
            ELSE IF doc.toks[j].t = "rbrace" THEN ParseOk(JObj(acc2), j + 1)
            ELSE IF doc.toks[j].t = "comma" THEN ParseMembers(doc, j + 1, acc2)
            ELSE ParseErr("Expecting ',' delimiter", PosAt(doc, j))

ParseItems(doc, i, acc) ==
  IF /\ python_version >= 313
     /\ i <= Len(doc.toks) /\ doc.toks[i].t = "rbracket" /\ doc.toks[i - 1].t = "comma"
  THEN ParseErr("Illegal trailing comma before end of array", doc.toks[i - 1].at)
  ELSE
  LET v == ParseValue(doc, i) IN
    IF ~v.ok THEN v
    ELSE LET acc2 == Append(acc, v.val)
             j == v.next
         IN IF j > Len(doc.toks) THEN ParseErr("Expecting ',' delimiter", PosAt(doc, j))
            ELSE IF doc.toks[j].t = "rbracket" THEN ParseOk(JArr(acc2), j + 1)
            ELSE IF doc.toks[j].t = "comma" THEN ParseItems(doc, j + 1, acc2)
            ELSE ParseErr("Expecting ',' delimiter", PosAt(doc, j))

\* JSONDecodeError: lineno, colno and the message str(exc) gives
lineno(doc, pos) == Cardinality({n \in doc.newlines : n < pos}) + 1
colno(doc, pos) ==
  LET before == {n \in doc.newlines : n < pos} IN
    IF before = {} THEN pos + 1
    ELSE pos - (CHOOSE n \in before : \A k \in before : k <= n)
JSONDecodeError(doc, msg, pos) ==
  msg \o ": line " \o ToString(lineno(doc, pos)) \o " column "
      \o ToString(colno(doc, pos)) \o " (char " \o ToString(pos) \o ")"

\* response.json(): the parsed value, or a ValueError; err is str(exc)
response_json(response) ==
  LET r == ParseValue(response, 1) IN
    IF ~r.ok
    THEN [ok |-> FALSE, val |-> JNull, err |-> JSONDecodeError(response, r.err, r.at)]
    ELSE IF r.next <= Len(response.toks)
    THEN [ok |-> FALSE, val |-> JNull,
          err |-> JSONDecodeError(response, "Extra data", PosAt(response, r.next))]
    ELSE [ok |-> TRUE, val |-> r.val, err |-> ""]

(***************************************************************************)
(* Request models: Permissions, PolicyCreate, PolicyUpdate.  A model       *)
(* instance is built from the inbound JSON object; a field the caller left *)
(* out takes the declared default.                                         *)
(***************************************************************************)
PermFlags == {"read", "create", "update", "delete"}

\* a Permissions field declared with default False instead of None
PermissionsDefaultFalse(data) ==
  [f \in PermFlags |-> IF f \in DOMAIN data.m THEN data.m[f] ELSE JBool(FALSE)]

\* class Permissions: four Optional[bool] fields, each defaulting to None
Permissions(data) ==
  [f \in PermFlags |-> IF f \in DOMAIN data.m THEN data.m[f] ELSE None]

\* permissions: Permissions = Field(default_factory=Permissions)
PermissionsField(data) ==
  IF "permissions" \in DOMAIN data.m
  THEN Permissions(data.m["permissions"])
  ELSE Permissions(JObj(EmptyMap))

\* class PolicyCreate
PolicyCreate(data) ==
  [agentId |-> data.m["agentId"],
   endpointId |-> data.m["endpointId"],
   permissions |-> PermissionsField(data)]

\* class PolicyUpdate
PolicyUpdate(data) == [permissions |-> PermissionsField(data)]

\* payload.model_dump(mode="json"): every declared field is written out
Permissions_model_dump(p) == JObj([f \in PermFlags |-> p[f]])

PolicyCreate_model_dump(payload) ==
  JObj([agentId |-> payload.agentId,
        endpointId |-> payload.endpointId,
        permissions |-> Permissions_model_dump(payload.permissions)])

PolicyUpdate_model_dump(payload) ==
  JObj([permissions |-> Permissions_model_dump(payload.permissions)])

(***************************************************************************)
(* Configuration and HTTP constants.                                       *)
(***************************************************************************)
Unset == "<unset>"
DefaultProxyUrl == "http://localhost:5001"

\* os.getenv(name, default)
getenv(value, default) == IF value = Unset THEN default ELSE value

HTTP_204_NO_CONTENT == 204
DefaultExpected == {200}

\* http.HTTPStatus(code).phrase; http.HTTPStatus has no other code.  Python
\* 3.13 renamed the phrases of 413, 414, 416 and 422.
HTTPStatusPhrase(code) ==
  CASE code = 100 -> "Continue"
    [] code = 101 -> "Switching Protocols"
    [] code = 102 -> "Processing"
    [] code = 103 -> "Early Hints"
    [] code = 200 -> "OK"
    [] code = 201 -> "Created"
    [] code = 202 -> "Accepted"
    [] code = 203 -> "Non-Authoritative Information"
    [] code = 204 -> "No Content"
    [] code = 205 -> "Reset Content"
    [] code = 206 -> "Partial Content"
    [] code = 207 -> "Multi-Status"
    [] code = 208 -> "Already Reported"
    [] code = 226 -> "IM Used"
    [] code = 300 -> "Multiple Choices"
    [] code = 301 -> "Moved Permanently"
    [] code = 302 -> "Found"
    [] code = 303 -> "See Other"
    [] code = 304 -> "Not Modified"
    [] code = 305 -> "Use Proxy"
    [] code = 307 -> "Temporary Redirect"
    [] code = 308 -> "Permanent Redirect"
    [] code = 400 -> "Bad Request"
    [] code = 401 -> "Unauthorized"
    [] code = 402 -> "Payment Required"
    [] code = 403 -> "Forbidden"
    [] code = 404 -> "Not Found"
    [] code = 405 -> "Method Not Allowed"
    [] code = 406 -> "Not Acceptable"
    [] code = 407 -> "Proxy Authentication Required"
    [] code = 408 -> "Request Timeout"
    [] code = 409 -> "Conflict"
    [] code = 410 -> "Gone"
    [] code = 411 -> "Length Required"
    [] code = 412 -> "Precondition Failed"
    [] code = 413 -> IF python_version >= 313 THEN "Content Too Large" ELSE "Request Entity Too Large"
    [] code = 414 -> IF python_version >= 313 THEN "URI Too Long" ELSE "Request-URI Too Long"
    [] code = 415 -> "Unsupported Media Type"
    [] code = 416 -> IF python_version >= 313 THEN "Range Not Satisfiable" ELSE "Requested Range Not Satisfiable"
    [] code = 417 -> "Expectation Failed"
    [] code = 418 -> "I'm a Teapot"
    [] code = 421 -> "Misdirected Request"
    [] code = 422 -> IF python_version >= 313 THEN "Unprocessable Content" ELSE "Unprocessable Entity"
    [] code = 423 -> "Locked"
    [] code = 424 -> "Failed Dependency"
    [] code = 425 -> "Too Early"
    [] code = 426 -> "Upgrade Required"
    [] code = 428 -> "Precondition Required"
    [] code = 429 -> "Too Many Requests"
    [] code = 431 -> "Request Header Fields Too Large"
    [] code = 451 -> "Unavailable For Legal Reasons"
    [] code = 500 -> "Internal Server Error"
    [] code = 501 -> "Not Implemented"
    [] code = 502 -> "Bad Gateway"
    [] code = 503 -> "Service Unavailable"
    [] code = 504 -> "Gateway Timeout"
    [] code = 505 -> "HTTP Version Not Supported"
    [] code = 506 -> "Variant Also Negotiates"
    [] code = 507 -> "Insufficient Storage"
    [] code = 508 -> "Loop Detected"
    [] code = 510 -> "Not Extended"
    [] code = 511 -> "Network Authentication Required"

\* HTTPException(status_code=..., detail=...): the constructor stores the
\* status code and the detail; a detail of None is replaced by the standard
\* phrase of the status code.
HTTPException(status_code, detail) ==
  [status_code |-> status_code,
   detail |-> IF detail = None THEN JStr(HTTPStatusPhrase(status_code)) ELSE detail]

Return(value) == [kind |-> "return", value |-> value]
\* raise at line 45
UpstreamError(exc) == [kind |-> "UpstreamError", exc |-> exc]
\* raise at line 56
UpstreamProtocolError(exc) == [kind |-> "UpstreamProtocolError", exc |-> exc]
\* an exception of client.request (connection refused, DNS failure, one of
\* the client's timeouts) that nothing catches
TransportFault == [kind |-> "TransportFault"]

(***************************************************************************)
(* proxy_request, the part after the await (lines 40-56): from the         *)
(* expected status set and the upstream response to a return value or a    *)
(* raised exception, together with the attributes of the response the code *)
(* reads on the way, in the order it reads them.                           *)
(***************************************************************************)
Ran(result, reads) == [result |-> result, reads |-> reads]
Then(reads, ran) == Ran(ran.result, reads \o ran.reads)

\* lines 41-45: the detail is the parsed body, or {"error": text or reason}
raise_upstream_error(response) ==
  LET parsed == response_json(response) IN
  IF parsed.ok
  THEN Ran(UpstreamError(HTTPException(response.status_code, parsed.val)),
           <<"json", "status_code">>)
  ELSE IF response.text # ""
  THEN Ran(UpstreamError(HTTPException(response.status_code,
                                       JObj("error" :> JStr(response.text)))),
           <<"json", "text", "status_code">>)
  ELSE Ran(UpstreamError(HTTPException(response.status_code,
                                       JObj("error" :> JStr(response.reason_phrase)))),
           <<"json", "text", "reason_phrase", "status_code">>)

\* a body that fails to parse on an expected status swallowed as "no value"
parse_body_swallow(response) ==
  LET parsed == response_json(response) IN
  IF parsed.ok THEN Ran(Return(parsed.val), <<"json">>)
  ELSE Ran(Return(None), <<"json">>)

\* lines 52-56
parse_body(response) ==
  LET parsed == response_json(response) IN
  IF parsed.ok THEN Ran(Return(parsed.val), <<"json">>)
  ELSE Ran(UpstreamProtocolError(HTTPException(500,
             JObj(("error" :> JStr("Invalid JSON from proxy"))
                  @@ ("details" :> JStr(parsed.err))))),
           <<"json">>)

\* the status test written as "is an error status" instead of "not expected"
proxy_request_run_error_class(expected, response) ==
  IF response.status_code >= 400
  THEN Then(<<"status_code">>, raise_upstream_error(response))
  ELSE IF response.status_code = HTTP_204_NO_CONTENT
  THEN Ran(Return(None), <<"status_code", "status_code">>)
  ELSE IF response.content = EmptyBytes
  THEN Ran(Return(None), <<"status_code", "status_code", "content">>)
  ELSE Then(<<"status_code", "status_code", "content">>, parse_body(response))

\* the test for an empty body made before the test for 204
proxy_request_run_content_first(expected, response) ==
  IF response.status_code \notin expected
  THEN Then(<<"status_code">>, raise_upstream_error(response))
  ELSE IF response.content = EmptyBytes
  THEN Ran(Return(None), <<"status_code", "content">>)
  ELSE IF response.status_code = HTTP_204_NO_CONTENT
  THEN Ran(Return(None), <<"status_code", "content", "status_code">>)
  ELSE Then(<<"status_code", "content", "status_code">>, parse_body(response))

\* lines 40-56; `not response.content` is the test for an empty byte string
proxy_request_run(expected, response) ==
  IF response.status_code \notin expected
  THEN Then(<<"status_code">>, raise_upstream_error(response))
  ELSE IF response.status_code = HTTP_204_NO_CONTENT
  THEN Ran(Return(None), <<"status_code", "status_code">>)
  ELSE IF response.content = EmptyBytes
  THEN Ran(Return(None), <<"status_code", "status_code", "content">>)
  ELSE Then(<<"status_code", "status_code", "content">>, parse_body(response))

\* what proxy_request returns or raises
proxy_request_result(expected, response) == proxy_request_run(expected, response).result
\* the attributes of the response it has read
proxy_request_reads(expected, response) == proxy_request_run(expected, response).reads

(***************************************************************************)
(* State.                                                                  *)
(***************************************************************************)
PythonVersions == {312, 313}

VARIABLES
  PROXY_URL,  \* module-level base URL of the upstream, read once at import
  pc,         \* per request: "idle", "awaiting" (suspended in client.request),
              \* "closing" (client.request over, suspended in the exit of
              \* async with), "done"
  inbound,    \* per request: the route that matched, its path parameter and body
  out,        \* per request: the outbound call made by proxy_request
  calls,      \* per request: number of outbound calls issued
  resp,       \* per request: the upstream response received
  reads,      \* per request: the attributes of the response that lines 40-56
              \* have read, in order
  outcome     \* per request: how the request ended

vars == <<PROXY_URL, python_version, pc, inbound, out, calls, resp, reads, outcome>>

NoInbound == [handler |-> "", method |-> "", path |-> "", agent_id |-> "", body |-> None]
NoCall == [method |-> "", url |-> "", json |-> None, expected |-> {}]
NoResponse ==
  [status_code |-> 0, reason_phrase |-> "", content |-> EmptyBytes, encoding |-> "",
   text |-> "", toks |-> <<>>, newlines |-> {}]
NoOutcome == [kind |-> "none"]
NoBody == [k |-> "nobody"]

(***************************************************************************)
(* Inputs.                                                                 *)
(***************************************************************************)
EnvValues == {Unset, "http://armoriq-proxy:8080"}
AgentIds == {"a1", "unknown"}
EndpointIds == {"e1"}
FlagValues == {JNull, JBool(TRUE), JBool(FALSE)}

\* every permissions object: each flag left out, null, true or false
PermissionInputs == UNION {[S -> FlagValues] : S \in SUBSET PermFlags}

WithPermissions(m) == {JObj(m)} \cup {JObj(("permissions" :> JObj(p)) @@ m) : p \in PermissionInputs}

CreateBodies ==
  UNION {WithPermissions([agentId |-> JStr(a), endpointId |-> JStr(e)]) :
           a \in AgentIds, e \in EndpointIds}
UpdateBodies == WithPermissions(EmptyMap)

PolicyToks ==
  <<LBrace(0), TStr("agentId", 1), Colon(10), TStr("a1", 11), Comma(15),
    TStr("endpointId", 16), Colon(28), TStr("e1", 29), Comma(33),
    TStr("permissions", 34), Colon(47),
    LBrace(48), TStr("read", 49), Colon(55), TTrue(56), Comma(60),
                TStr("create", 61), Colon(69), TNull(70), Comma(74),
                TStr("update", 75), Colon(83), TNull(84), Comma(88),
                TStr("delete", 89), Colon(97), TNull(98), RBrace(102),
    RBrace(103)>>
PolicyText ==
  "{\"agentId\":\"a1\",\"endpointId\":\"e1\",\"permissions\":{\"read\":true,\"create\":null,\"update\":null,\"delete\":null}}"

NotFoundToks == <<LBrace(0), TStr("error", 1), Colon(8), TStr("not found", 9), RBrace(20)>>
NotFoundText == "{\"error\":\"not found\"}"

\* an upstream body: its bytes (mark, chars and the lexing of chars) and the
\* charset its Content-Type declares
Body(text, toks, newlines) ==
  [bom |-> FALSE, charset |-> "utf-8", text |-> text, toks |-> toks, newlines |-> newlines]
\* a body that starts with the byte order mark, declared as utf-8-sig
SigBody(text, toks, newlines) ==
  [bom |-> TRUE, charset |-> "utf-8-sig", text |-> text, toks |-> toks,
   newlines |-> newlines]
Bodies ==
  { Body("", <<>>, {}),
    Body(" ", <<>>, {}),
    Body("not-json", <<TBad("not-json", 0)>>, {}),
    Body("null", <<TNull(0)>>, {}),
    Body(NotFoundText, NotFoundToks, {}),
    Body("{\"error\":", <<LBrace(0), TStr("error", 1), Colon(8)>>, {}),
    Body("{}{}", <<LBrace(0), RBrace(1), LBrace(2), RBrace(3)>>, {}),
    Body("{\n\"error\": oops}",
         <<LBrace(0), TStr("error", 2), Colon(9), TBad("oops", 11), RBrace(15)>>, {1}),
    Body("{\"a\" \"b\"}", <<LBrace(0), TStr("a", 1), TStr("b", 5), RBrace(8)>>, {}),
    Body("[{\"id\":\"e1\"},false]",
         <<LBracket(0), LBrace(1), TStr("id", 2), Colon(6), TStr("e1", 7), RBrace(11),
           Comma(12), TFalse(13), RBracket(18)>>, {}),
    Body(PolicyText, PolicyToks, {}),
    SigBody("", <<>>, {}),
    SigBody(NotFoundText, NotFoundToks, {}),
    Body("{\"a\":\"b\",}",
         <<LBrace(0), TStr("a", 1), Colon(4), TStr("b", 5), Comma(8), RBrace(9)>>, {}),
    Body("[\"a\",]", <<LBracket(0), TStr("a", 1), Comma(4), RBracket(5)>>, {}) }

StatusCodes == {200, 201, 204, 404, 500}

\* The body client.request delivers: a 204 (like a 304) has no body in HTTP,
\* so the client reads none and response.content is empty whatever bytes
\* the upstream sends after the header.  The charset is that of the
\* Content-Type header all the same.
delivered_body(status_code, body) ==
  IF status_code \in {204, 304}
  THEN [bom |-> FALSE, charset |-> body.charset, text |-> "", toks |-> <<>>,
        newlines |-> {}]
  ELSE body

\* the reason phrases an upstream writes on the status line: the standard
\* one, none, one of its own
ReasonPhrases(status_code) == {HTTPStatusPhrase(status_code), "", "Policy Store Down"}

\* U+FEFF, what the utf-8 codec makes of the byte order mark
ZWNBSP == "﻿"

\* response.text: the content decoded with the declared charset; utf-8-sig
\* drops a leading byte order mark, utf-8 keeps it as U+FEFF
decode(content, encoding) ==
  IF content.bom /\ encoding # "utf-8-sig" THEN ZWNBSP \o content.chars
  ELSE content.chars

\* the response of line 38 for an upstream reply of this status line and body
Response(status_code, reason_phrase, body) ==
  LET b == delivered_body(status_code, body) IN
  [status_code |-> status_code, reason_phrase |-> reason_phrase,
   content |-> Bytes(b.bom, b.text), encoding |-> b.charset,
   text |-> decode(Bytes(b.bom, b.text), b.charset),
   toks |-> b.toks, newlines |-> b.newlines]

\* every body under the standard phrase; under the other phrases the bodies
\* for which line 45 may turn to the phrase
PhraseBodies ==
  { Body("", <<>>, {}), SigBody("", <<>>, {}), Body("not-json", <<TBad("not-json", 0)>>, {}) }

Responses ==
  UNION {{Response(c, HTTPStatusPhrase(c), b) : b \in Bodies}
           \cup {Response(c, p, b) : p \in ReasonPhrases(c), b \in PhraseBodies} :
         c \in StatusCodes}

\* the smaller input sets of the concurrent specification
ConcAgentIds == {"a1"}
ConcCreateBodies ==
  {JObj([agentId |-> JStr("a1"), endpointId |-> JStr("e1"),
         permissions |-> JObj([read |-> JBool(TRUE)])])}
ConcUpdateBodies == {JObj([permissions |-> JObj([update |-> JBool(FALSE)])])}
ConcResponses ==
  { Response(200, "OK", Body(PolicyText, PolicyToks, {})),
    Response(201, "Created", Body(PolicyText, PolicyToks, {})),
    Response(404, "Not Found", Body(NotFoundText, NotFoundToks, {})) }

\* the replies of the serial specification
SerialResponses ==
  { Response(200, "OK", Body(PolicyText, PolicyToks, {})),
    Response(404, "Not Found", Body(NotFoundText, NotFoundToks, {})) }

(***************************************************************************)
(* Init: the module has been imported; no request has arrived.             *)
(***************************************************************************)
InitFor(ids) ==
  /\ \E v \in EnvValues : PROXY_URL = getenv(v, DefaultProxyUrl)
  /\ python_version \in PythonVersions
  /\ pc = [r \in ids |-> "idle"]
  /\ inbound = [r \in ids |-> NoInbound]
  /\ out = [r \in ids |-> NoCall]
  /\ calls = [r \in ids |-> 0]
  /\ resp = [r \in ids |-> NoResponse]
  /\ reads = [r \in ids |-> <<>>]
  /\ outcome = [r \in ids |-> NoOutcome]

Init == InitFor(ReqIds)
SerialInit == InitFor(SerialIds)

(***************************************************************************)
(* proxy_request up to the await: build the URL, issue the one call.       *)
(***************************************************************************)
proxy_request(r, method, path, json, expected) ==
  /\ out' = [out EXCEPT ![r] = [method |-> method, url |-> PROXY_URL \o path,
                                json |-> json, expected |-> expected]]
  /\ calls' = [calls EXCEPT ![r] = @ + 1]
  /\ pc' = [pc EXCEPT ![r] = "awaiting"]

\* routing: the decorator that matched the inbound request
Route(r, handler, method, path, agent_id, body) ==
  /\ pc[r] = "idle"
  /\ inbound' = [inbound EXCEPT ![r] = [handler |-> handler, method |-> method,
                    path |-> path, agent_id |-> agent_id, body |-> body]]
  /\ UNCHANGED <<PROXY_URL, python_version, resp, reads, outcome>>

(***************************************************************************)
(* The eight handlers.                                                     *)
(***************************************************************************)
get_status(r) ==
  /\ Route(r, "get_status", "GET", "/status", "", None)
  /\ proxy_request(r, "GET", "/health", None, DefaultExpected)

get_logs(r) ==
  /\ Route(r, "get_logs", "GET", "/logs", "", None)
  /\ proxy_request(r, "GET", "/api/audit-logs", None, DefaultExpected)

get_endpoints(r) ==
  /\ Route(r, "get_endpoints", "GET", "/endpoints", "", None)
  /\ proxy_request(r, "GET", "/api/endpoints", None, DefaultExpected)

list_policies(r) ==
  /\ Route(r, "list_policies", "GET", "/policies", "", None)
  /\ proxy_request(r, "GET", "/api/policies", None, DefaultExpected)

\* the path built without the agent id
get_policy_no_id(r, agent_id) ==
  /\ Route(r, "get_policy", "GET", "/policies/{agent_id}", agent_id, None)
  /\ proxy_request(r, "GET", "/api/policies", None, DefaultExpected)

get_policy(r, agent_id) ==
  /\ Route(r, "get_policy", "GET", "/policies/{agent_id}", agent_id, None)
  /\ proxy_request(r, "GET", "/api/policies/" \o agent_id, None, DefaultExpected)

create_policy(r, body) ==
  /\ Route(r, "create_policy", "POST", "/policies", "", body)
  /\ proxy_request(r, "POST", "/api/policies",
                   PolicyCreate_model_dump(PolicyCreate(body)), {201})

update_policy(r, agent_id, body) ==
  /\ Route(r, "update_policy", "PUT", "/policies/{agent_id}", agent_id, body)
  /\ proxy_request(r, "PUT", "/api/policies/" \o agent_id,
                   PolicyUpdate_model_dump(PolicyUpdate(body)), DefaultExpected)

delete_policy(r, agent_id) ==
  /\ Route(r, "delete_policy", "DELETE", "/policies/{agent_id}", agent_id, None)
  /\ proxy_request(r, "DELETE", "/api/policies/" \o agent_id, None, {204})

(***************************************************************************)
(* The handlers after proxy_request has returned: the status code of the   *)
(* route decorator and the value the handler returns.                      *)
(***************************************************************************)
\* create_policy declared without status_code=201
status_code_default(handler) ==
  CASE handler = "delete_policy" -> 204
    [] OTHER -> 200

\* status_code of the route decorator (200 when none is given)
status_code(handler) ==
  CASE handler = "create_policy" -> 201
    [] handler = "delete_policy" -> 204
    [] OTHER -> 200

\* delete_policy drops the result and returns nothing; the others return it
handler_return(handler, value) ==
  IF handler = "delete_policy" THEN NoBody ELSE value

handler_outcome(handler, result) ==
  IF result.kind = "return"
  THEN [kind |-> "response", status_code |-> status_code(handler),
        body |-> handler_return(handler, result.value)]
  ELSE result

(***************************************************************************)
(* proxy_request after the await of client.request.  The call returns a    *)
(* response or raises; either way the exit of `async with` follows, which  *)
(* awaits the closing of the client, so other requests may run before      *)
(* lines 40-56 compute the result.  The arguments are those of the         *)
(* invocation itself, the client and the response are its own.             *)
(***************************************************************************)
\* response = await client.request(method, url, json=json)
client_request_returns(r, response) ==
  /\ pc[r] = "awaiting"
  /\ resp' = [resp EXCEPT ![r] = response]
  /\ pc' = [pc EXCEPT ![r] = "closing"]
  /\ UNCHANGED <<PROXY_URL, python_version, inbound, out, calls, reads, outcome>>

\* client.request raises (connection refused, DNS failure, a connect, read,
\* write or pool timeout of 10 s): no response is bound
client_request_raises(r) ==
  /\ pc[r] = "awaiting"
  /\ pc' = [pc EXCEPT ![r] = "closing"]
  /\ UNCHANGED <<PROXY_URL, python_version, inbound, out, calls, resp, reads, outcome>>

\* the arguments kept in one module-level slot that every call overwrites
call_args_shared(r) ==
  out[CHOOSE q \in ReqIds :
        /\ pc[q] \in {"awaiting", "closing"}
        /\ \A p \in ReqIds : pc[p] \in {"awaiting", "closing"} => q >= p]

call_args(r) == out[r]

\* one client shared by all requests and closed by the first to finish
client_result_shared(r, response) ==
  IF \E q \in DOMAIN pc : pc[q] = "done"
  THEN Ran(TransportFault, <<>>)
  ELSE proxy_request_run(call_args(r).expected, response)

\* async with httpx.AsyncClient(...) as client: one client per invocation
client_result(r, response) ==
  proxy_request_run(call_args(r).expected, response)

\* the exit of async with is over: lines 40-56 and the handler's return, or
\* the exception of client.request propagating out of the handler
proxy_request_finish(r) ==
  /\ pc[r] = "closing"
  /\ outcome' = [outcome EXCEPT ![r] =
                   IF resp[r] = NoResponse THEN TransportFault
                   ELSE handler_outcome(inbound[r].handler,
                                        client_result(r, resp[r]).result)]
  /\ reads' = [reads EXCEPT ![r] =
                 IF resp[r] = NoResponse THEN <<>>
                 ELSE client_result(r, resp[r]).reads]
  /\ pc' = [pc EXCEPT ![r] = "done"]
  /\ UNCHANGED <<PROXY_URL, python_version, inbound, out, calls, resp>>

(***************************************************************************)
(* Specifications.                                                         *)
(* Spec: one request at a time over the full input sets.                   *)
(* ConcSpec: NumRequests requests in flight over the smaller input sets.   *)
(* SerialSpec: NumServed requests of one client that sends each request    *)
(* after the previous one has ended.                                       *)
(* ConcFairSpec: ConcSpec where a request whose client.request is over     *)
(* goes on to its end: closing the client and lines 40-56 wait for nothing *)
(* outside the process.  Nothing is assumed of the wait in client.request: *)
(* timeout=10.0 limits each connect, read, write and pool operation, not   *)
(* the call, so an upstream that keeps sending keeps the call suspended.   *)
(***************************************************************************)
Next ==
  \/ get_status(1)
  \/ get_logs(1)
  \/ get_endpoints(1)
  \/ list_policies(1)
  \/ \E a \in AgentIds : get_policy(1, a)
  \/ \E b \in CreateBodies : create_policy(1, b)
  \/ \E a \in AgentIds, b \in UpdateBodies : update_policy(1, a, b)
  \/ \E a \in AgentIds : delete_policy(1, a)
  \/ \E response \in Responses : client_request_returns(1, response)
  \/ client_request_raises(1)
  \/ proxy_request_finish(1)

Spec == Init /\ [][Next]_vars

ConcNext ==
  \E r \in ReqIds :
    \/ get_status(r)
    \/ get_logs(r)
    \/ get_endpoints(r)
    \/ list_policies(r)
    \/ \E a \in ConcAgentIds : get_policy(r, a)
    \/ \E b \in ConcCreateBodies : create_policy(r, b)
    \/ \E a \in ConcAgentIds, b \in ConcUpdateBodies : update_policy(r, a, b)
    \/ \E a \in ConcAgentIds : delete_policy(r, a)
    \/ \E response \in ConcResponses : client_request_returns(r, response)
    \/ client_request_raises(r)
    \/ proxy_request_finish(r)

ConcSpec == Init /\ [][ConcNext]_vars

\* The step of proxy_request_finish(r) as it shows in pc: in ConcSpec a step
\* that takes pc[r] from "closing" to "done" is a step of
\* proxy_request_finish(r), and that action is enabled exactly when
\* pc[r] = "closing".
finish_step(r) == pc[r] = "closing" /\ pc' = [pc EXCEPT ![r] = "done"]

ConcFairSpec == ConcSpec /\ \A r \in ReqIds : WF_pc(finish_step(r))

\* request r arrives when the requests before it have ended
serial_turn(r) == \A p \in SerialIds : p < r => pc[p] = "done"

SerialNext ==
  \E r \in SerialIds :
    /\ serial_turn(r)
    /\ \/ get_status(r)
       \/ get_logs(r)
       \/ get_endpoints(r)
       \/ list_policies(r)
       \/ \E a \in ConcAgentIds : get_policy(r, a)
       \/ \E b \in ConcCreateBodies : create_policy(r, b)
       \/ \E a \in ConcAgentIds, b \in ConcUpdateBodies : update_policy(r, a, b)
       \/ \E a \in ConcAgentIds : delete_policy(r, a)
       \/ \E response \in SerialResponses : client_request_returns(r, response)
       \/ client_request_raises(r)
       \/ proxy_request_finish(r)

SerialSpec == SerialInit /\ [][SerialNext]_vars

(***************************************************************************)
(* What the properties are stated against: the route table of the          *)
(* specification and the JSON value each upstream body stands for.         *)
(***************************************************************************)
RouteEntry(method, path, up_method, up_path, with_id, expected) ==
  [method |-> method, path |-> path, up_method |-> up_method,
   up_path |-> up_path, with_id |-> with_id, expected |-> expected]

RouteTable ==
  { RouteEntry("GET", "/status", "GET", "/health", FALSE, {200}),
    RouteEntry("GET", "/logs", "GET", "/api/audit-logs", FALSE, {200}),
    RouteEntry("GET", "/endpoints", "GET", "/api/endpoints", FALSE, {200}),
    RouteEntry("GET", "/policies", "GET", "/api/policies", FALSE, {200}),
    RouteEntry("GET", "/policies/{agent_id}", "GET", "/api/policies/", TRUE, {200}),
    RouteEntry("POST", "/policies", "POST", "/api/policies", FALSE, {201}),
    RouteEntry("PUT", "/policies/{agent_id}", "PUT", "/api/policies/", TRUE, {200}),
    RouteEntry("DELETE", "/policies/{agent_id}", "DELETE", "/api/policies/", TRUE, {204}) }

RouteOf(inb) == CHOOSE e \in RouteTable : e.method = inb.method /\ e.path = inb.path
RouteExpected(inb) == RouteOf(inb).expected
RouteUpstreamPath(inb) ==
  IF RouteOf(inb).with_id THEN RouteOf(inb).up_path \o inb.agent_id ELSE RouteOf(inb).up_path

Decoded(text) ==
  CASE text = "null" -> [ok |-> TRUE, val |-> JNull, err |-> ""]
    [] text = NotFoundText ->
         [ok |-> TRUE, val |-> JObj([error |-> JStr("not found")]), err |-> ""]
    [] text = "[{\"id\":\"e1\"},false]" ->
         [ok |-> TRUE, val |-> JArr(<<JObj([id |-> JStr("e1")]), JBool(FALSE)>>), err |-> ""]
    [] text = PolicyText ->
         [ok |-> TRUE, err |-> "",
          val |-> JObj([agentId |-> JStr("a1"), endpointId |-> JStr("e1"),
                        permissions |-> JObj([read |-> JBool(TRUE), create |-> JNull,
                                              update |-> JNull, delete |-> JNull])])]
    [] text = "" ->
         [ok |-> FALSE, val |-> JNull, err |-> "Expecting value: line 1 column 1 (char 0)"]
    [] text = " " ->
         [ok |-> FALSE, val |-> JNull, err |-> "Expecting value: line 1 column 2 (char 1)"]
    [] text = "not-json" ->
         [ok |-> FALSE, val |-> JNull, err |-> "Expecting value: line 1 column 1 (char 0)"]
    [] text = "{\"error\":" ->
         [ok |-> FALSE, val |-> JNull, err |-> "Expecting value: line 1 column 10 (char 9)"]
    [] text = "{}{}" ->
         [ok |-> FALSE, val |-> JNull, err |-> "Extra data: line 1 column 3 (char 2)"]
    [] text = "{\n\"error\": oops}" ->
         [ok |-> FALSE, val |-> JNull, err |-> "Expecting value: line 2 column 10 (char 11)"]
    [] text = "{\"a\":\"b\",}" ->
         [ok |-> FALSE, val |-> JNull,
          err |-> IF python_version >= 313
                  THEN "Illegal trailing comma before end of object: line 1 column 9 (char 8)"
                  ELSE "Expecting property name enclosed in double quotes: line 1 column 10 (char 9)"]
    [] text = "[\"a\",]" ->
         [ok |-> FALSE, val |-> JNull,
          err |-> IF python_version >= 313
                  THEN "Illegal trailing comma before end of array: line 1 column 5 (char 4)"
                  ELSE "Expecting value: line 1 column 6 (char 5)"]
    [] text = "{\"a\" \"b\"}" ->
         [ok |-> FALSE, val |-> JNull,
          err |-> "Expecting ':' delimiter: line 1 column 6 (char 5)"]

Done(r) == pc[r] = "done"
Answered(r) == Done(r) /\ resp[r] # NoResponse
ExpectedStatus(r) == resp[r].status_code \in RouteExpected(inbound[r])

(***************************************************************************)
(* C1: when the upstream answers with a status code of the route's         *)
(* expected set and a body that decodes as JSON (or with 204), the facade  *)
(* answers with the same status code and with the decoded value as body    *)
(* (no body for 204).                                                      *)
(***************************************************************************)
C1_SuccessMirrorsUpstream ==
  \A r \in ReqIds :
    (/\ Answered(r)
     /\ ExpectedStatus(r)
     /\ (resp[r].status_code = 204 \/ Decoded(resp[r].text).ok))
    => /\ outcome[r].kind = "response"
       /\ outcome[r].status_code = resp[r].status_code
       /\ outcome[r].body = IF resp[r].status_code = 204 THEN NoBody
                            ELSE Decoded(resp[r].text).val

C1_Witness ==
  \E r \in ReqIds :
    /\ Answered(r)
    /\ inbound[r].handler = "create_policy"
    /\ resp[r].status_code = 201
    /\ resp[r].text = PolicyText
    /\ outcome[r].kind = "response"
    /\ outcome[r].status_code = 201

(***************************************************************************)
(* C2: for an upstream status code outside the route's expected set the    *)
(* request ends with an error that carries the upstream's status code and, *)
(* as detail, the upstream's parsed JSON body unchanged when the body      *)
(* parses, otherwise {error: raw text, or the reason phrase when the text  *)
(* is empty}.                                                              *)
(***************************************************************************)
C2_ErrorMirrorsUpstream ==
  \A r \in ReqIds :
    (Answered(r) /\ ~ExpectedStatus(r))
    => /\ outcome[r].kind = "UpstreamError"
       /\ outcome[r].exc.status_code = resp[r].status_code
       /\ outcome[r].exc.detail =
            IF Decoded(resp[r].text).ok THEN Decoded(resp[r].text).val
            ELSE JObj([error |-> JStr(IF resp[r].text # "" THEN resp[r].text
                                      ELSE resp[r].reason_phrase)])

(***************************************************************************)
(* C3: an expected status code other than 204 with a non-empty body (one   *)
(* byte or more, a byte order mark alone included) that fails JSON parsing *)
(* ends the request with an UpstreamProtocolError,                         *)
(* status 500, whose detail carries the parse error; an                    *)
(* UpstreamProtocolError never arises for a status code outside the        *)
(* expected set, which is reported with the upstream's own status code     *)
(* even when its body is not JSON.                                         *)
(***************************************************************************)
C3_MalformedSuccessIs500 ==
  \A r \in ReqIds :
    /\ (/\ Answered(r)
        /\ ExpectedStatus(r)
        /\ resp[r].status_code # 204
        /\ resp[r].content # EmptyBytes
        /\ ~Decoded(resp[r].text).ok)
       => /\ outcome[r].kind = "UpstreamProtocolError"
          /\ outcome[r].exc.status_code = 500
          /\ outcome[r].exc.detail =
               JObj([error |-> JStr("Invalid JSON from proxy"),
                     details |-> JStr(Decoded(resp[r].text).err)])
    /\ (Done(r) /\ outcome[r].kind = "UpstreamProtocolError")
       => (Answered(r) /\ ExpectedStatus(r))
    /\ (Answered(r) /\ ~ExpectedStatus(r))
       => /\ outcome[r].kind = "UpstreamError"
          /\ outcome[r].exc.status_code = resp[r].status_code

C3_Witness ==
  \E r \in ReqIds :
    /\ Answered(r)
    /\ resp[r].status_code = 200
    /\ resp[r].content = Bytes(TRUE, "")
    /\ resp[r].text = ""
    /\ inbound[r].method = "GET"
    /\ outcome[r].kind = "UpstreamProtocolError"
    /\ outcome[r].exc.detail =
         JObj([error |-> JStr("Invalid JSON from proxy"),
               details |-> JStr("Expecting value: line 1 column 1 (char 0)")])

(***************************************************************************)
(* C4: every handler calls the upstream with the method, path and expected *)
(* status set of the route table; the agent id of the upstream path is the *)
(* one of the inbound path and the URL is the base URL followed by the     *)
(* path.                                                                   *)
(***************************************************************************)
C4_RouteTable ==
  \A r \in ReqIds :
    pc[r] # "idle"
    => /\ \E e \in RouteTable : e.method = inbound[r].method /\ e.path = inbound[r].path
       /\ out[r].method = RouteOf(inbound[r]).up_method
       /\ out[r].url = PROXY_URL \o RouteUpstreamPath(inbound[r])
       /\ out[r].expected = RouteExpected(inbound[r])
       /\ PROXY_URL \in {DefaultProxyUrl} \cup (EnvValues \ {Unset})

C4_Witness ==
  \E r \in ReqIds :
    /\ pc[r] = "awaiting"
    /\ inbound[r].handler = "get_policy"
    /\ inbound[r].agent_id = "unknown"
    /\ out[r].url = "http://localhost:5001/api/policies/unknown"

(***************************************************************************)
(* C5: a request that reached its handler has issued exactly one outbound  *)
(* call and then ends in exactly one terminal outcome (a response, an      *)
(* UpstreamError, an UpstreamProtocolError or an unhandled transport       *)
(* fault); after its outcome nothing of it changes: the call is never      *)
(* issued again.                                                           *)
(***************************************************************************)
TerminalKinds == {"response", "UpstreamError", "UpstreamProtocolError", "TransportFault"}

C5_OneCallOneOutcome ==
  /\ [](\A r \in ReqIds :
          /\ (pc[r] = "idle" => calls[r] = 0 /\ outcome[r] = NoOutcome)
          /\ (pc[r] \in {"awaiting", "closing"} => calls[r] = 1 /\ outcome[r] = NoOutcome)
          /\ (pc[r] = "done" => calls[r] = 1 /\ outcome[r].kind \in TerminalKinds))
  /\ [][\A r \in ReqIds :
          pc[r] = "done" => /\ pc'[r] = "done"
                            /\ outcome'[r] = outcome[r]
                            /\ calls'[r] = calls[r]
                            /\ out'[r] = out[r]]_vars
  /\ \A r \in ReqIds : (pc[r] = "awaiting") ~> (pc[r] = "done")

(***************************************************************************)
(* C6: with several requests in flight, in any interleaving, the outcome   *)
(* of a request is a function of its own route, path parameter, body and   *)
(* upstream reply; a step of one request leaves every other request's      *)
(* state alone; the base URL never changes.                                *)
(***************************************************************************)
OwnOutcome(inb, response) ==
  IF response = NoResponse THEN TransportFault
  ELSE handler_outcome(inb.handler,
                       proxy_request_result(RouteExpected(inb), response))

Slot(r) == <<pc[r], inbound[r], out[r], calls[r], resp[r], reads[r], outcome[r]>>

C6_RequestsIndependent ==
  /\ [](\A r \in ReqIds : Done(r) => outcome[r] = OwnOutcome(inbound[r], resp[r]))
  /\ [](\A r, q \in ReqIds :
          (Done(r) /\ Done(q) /\ inbound[r] = inbound[q] /\ resp[r] = resp[q])
          => outcome[r] = outcome[q])
  /\ [][\E r \in ReqIds : \A q \in ReqIds \ {r} : Slot(q)' = Slot(q)]_vars
  /\ [][PROXY_URL' = PROXY_URL]_vars

C6_Witness ==
  \E r, q \in ReqIds :
    /\ r # q
    /\ Answered(r) /\ Answered(q)
    /\ inbound[r].handler = "create_policy" /\ inbound[q].handler = "get_status"
    /\ resp[r].status_code = 201 /\ resp[q].status_code = 201
    /\ outcome[r].kind = "response" /\ outcome[q].kind = "UpstreamError"

(***************************************************************************)
(* C7: the body forwarded by POST /policies has exactly the fields         *)
(* agentId, endpointId and permissions; agentId and endpointId are the     *)
(* caller's; a flag the caller set to true or false is forwarded with that *)
(* value and a flag the caller left unset is forwarded as null or left     *)
(* out, never as true or false.  The same holds for the permissions        *)
(* forwarded by PUT /policies/{agentId}.                                   *)
(***************************************************************************)
CallerFlag(body, f) ==
  IF "permissions" \in DOMAIN body.m /\ f \in DOMAIN body.m["permissions"].m
  THEN body.m["permissions"].m[f]
  ELSE JNull

FlagsForwarded(body, sent) ==
  /\ sent.k = "obj"
  /\ DOMAIN sent.m \subseteq PermFlags
  /\ \A f \in PermFlags :
       IF CallerFlag(body, f) \in {JBool(TRUE), JBool(FALSE)}
       THEN f \in DOMAIN sent.m /\ sent.m[f] = CallerFlag(body, f)
       ELSE f \notin DOMAIN sent.m \/ sent.m[f] = JNull

C7_BodyRoundTrip ==
  \A r \in ReqIds :
    /\ (pc[r] # "idle" /\ inbound[r].handler = "create_policy")
       => /\ out[r].json.k = "obj"
          /\ DOMAIN out[r].json.m = {"agentId", "endpointId", "permissions"}
          /\ out[r].json.m["agentId"] = inbound[r].body.m["agentId"]
          /\ out[r].json.m["endpointId"] = inbound[r].body.m["endpointId"]
          /\ FlagsForwarded(inbound[r].body, out[r].json.m["permissions"])
    /\ (pc[r] # "idle" /\ inbound[r].handler = "update_policy")
       => /\ out[r].json.k = "obj"
          /\ DOMAIN out[r].json.m = {"permissions"}
          /\ FlagsForwarded(inbound[r].body, out[r].json.m["permissions"])
    /\ (pc[r] # "idle" /\ inbound[r].handler \notin {"create_policy", "update_policy"})
       => out[r].json = None

C7_Witness ==
  \E r \in ReqIds :
    /\ pc[r] = "awaiting"
    /\ inbound[r].handler = "create_policy"
    /\ inbound[r].body.m["agentId"] = JStr("a1")
    /\ "permissions" \in DOMAIN inbound[r].body.m
    /\ inbound[r].body.m["permissions"] = JObj([read |-> JBool(TRUE), delete |-> JBool(FALSE)])
    /\ out[r].json.m["permissions"] =
         JObj([read |-> JBool(TRUE), create |-> JNull, update |-> JNull,
               delete |-> JBool(FALSE)])

(***************************************************************************)
(* C8: a client sends its requests one after the other.  Two of them that  *)
(* are GET requests and receive the same upstream reply end with the same  *)
(* response, whichever of the five GET routes each is, however many        *)
(* requests were served before either of them and whatever those were and  *)
(* how they ended; in particular the same GET repeated with the upstream's *)
(* reply unchanged has the same answer.                                    *)
(***************************************************************************)
C8_GetIdempotent ==
  \A r, q \in SerialIds :
    (/\ r < q
     /\ Answered(r) /\ Answered(q)
     /\ inbound[r].method = "GET" /\ inbound[q].method = "GET"
     /\ resp[r] = resp[q])
    => outcome[r] = outcome[q]

\* the same GET first and third, a DELETE that failed served in between
C8_Witness ==
  /\ \A r \in 1..3 : Answered(r)
  /\ inbound[1].handler = "get_policy" /\ inbound[3] = inbound[1]
  /\ inbound[2].handler = "delete_policy"
  /\ resp[1].status_code = 200 /\ resp[3] = resp[1]
  /\ resp[2].status_code = 404
  /\ outcome[2].kind = "UpstreamError"
  /\ outcome[1].kind = "response"
  /\ outcome[3] = outcome[1]

(***************************************************************************)
(* C9: a request ends as a success only if the upstream status code is in  *)
(* the route's expected set; every other upstream status code, a           *)
(* success-class one included, ends it as an UpstreamError.                *)
(***************************************************************************)
C9_OnlyExpectedSucceeds ==
  \A r \in ReqIds :
    /\ (Done(r) /\ outcome[r].kind = "response") => (Answered(r) /\ ExpectedStatus(r))
    /\ (Answered(r) /\ ~ExpectedStatus(r)) => outcome[r].kind = "UpstreamError"

C9_Witness ==
  \E r \in ReqIds :
    /\ Answered(r)
    /\ inbound[r].handler = "create_policy"
    /\ resp[r].status_code = 200
    /\ resp[r].text = PolicyText
    /\ outcome[r].kind = "UpstreamError"

(***************************************************************************)
(* C10: for an expected status code, proxy_request yields "no value" when  *)
(* the status code is 204 or when the body is empty (no byte), and         *)
(* otherwise the result of parsing the body; DELETE answered by 204 gives  *)
(* a facade 204 without body.  On a 204 the code reads nothing of the body *)
(* (content, text, json): it is neither looked at nor parsed.  On every    *)
(* expected status both status tests come before the first read of the     *)
(* body, and an empty body is never parsed.                                *)
(***************************************************************************)
NoValue(r) ==
  /\ outcome[r].kind = "response"
  /\ outcome[r].body = IF inbound[r].handler = "delete_policy" THEN NoBody ELSE None

BodyReads == {"content", "text", "json"}

C10_NoValueOrParsed ==
  \A r \in ReqIds :
    (Answered(r) /\ ExpectedStatus(r))
    => /\ (resp[r].status_code = 204 \/ resp[r].content = EmptyBytes) => NoValue(r)
       /\ (resp[r].status_code # 204 /\ resp[r].content # EmptyBytes
             /\ Decoded(resp[r].text).ok)
          => /\ outcome[r].kind = "response"
             /\ outcome[r].body = IF inbound[r].handler = "delete_policy" THEN NoBody
                                  ELSE Decoded(resp[r].text).val
       /\ (resp[r].status_code # 204 /\ resp[r].content # EmptyBytes
             /\ ~Decoded(resp[r].text).ok)
          => outcome[r].kind = "UpstreamProtocolError"
       /\ (inbound[r].handler = "delete_policy" /\ resp[r].status_code = 204)
          => outcome[r] = [kind |-> "response", status_code |-> 204, body |-> NoBody]
       /\ resp[r].status_code = 204
          => \A i \in DOMAIN reads[r] : reads[r][i] \notin BodyReads
       /\ \A i \in DOMAIN reads[r] :
            reads[r][i] \in BodyReads
            => i > 2 /\ reads[r][1] = "status_code" /\ reads[r][2] = "status_code"
       /\ resp[r].content = EmptyBytes
          => \A i \in DOMAIN reads[r] : reads[r][i] # "json"

C10_Witness ==
  \E r \in ReqIds :
    /\ Answered(r)
    /\ inbound[r].handler = "delete_policy"
    /\ resp[r].status_code = 204
    /\ resp[r].content = EmptyBytes
    /\ reads[r] = <<"status_code", "status_code">>
    /\ outcome[r] = [kind |-> "response", status_code |-> 204, body |-> NoBody]

====
